---- MODULE Spec2Model ----
(***************************************************************************)
(* Upload screen of the storage client: the upload queue (files), its      *)
(* admission paths (media picker, document picker, share intent), the      *)
(* queue operations and the batched uploader (uploadMutation), which sends *)
(* the queue in windows of MAX_CONCURRENT_UPLOADS items through            *)
(* get-presigned-url, the upload POST and create-file-record; and the file *)
(* manager's two operations on a stored file, download and delete.         *)
(*                                                                         *)
(* Sizes are counted in KiB, so that 10 GiB fits a 32-bit integer.         *)
(***************************************************************************)
EXTENDS Integers, Sequences, FiniteSets, TLC

\* ------------------------------------------------------------------ bounds
\* Number of items admitted to the queue over the life of the screen.
MaxItems == 4
\* Number of assets one picker result or one share intent carries.
MaxGroup == 2
\* Number of queue operations the user performs while one batch is pending.
MaxEdits == 1
\* Number of shared URLs and texts the screen receives.
MaxTexts == 1
\* Largest byte count a download progress callback reports.
MaxBytes == 2
\* Number of folders created over the life of the drive.
MaxFolders == 2
\* Number of file records created by uploads over the life of the drive.
MaxUploads == 1
\* Length of the longest queue followed when selections of many files are
\* admitted.
MaxQueued == 101
\* Number of records of a folder beyond one page, and number of distinct
\* created_at values among them.
MaxExtra == 2
MaxTimes == 3
\* Number of files the sequential uploader is handed.
MaxSequential == 3

\* ------------------------------------------------------- program constants
GiB == 1024 * 1024

MAX_FILES_PER_UPLOAD == 100
MAX_FILE_SIZE == 5 * GiB
MAX_TOTAL_SIZE_PER_UPLOAD == 10 * GiB
MAX_IMAGE_PICKER_SELECTION == 50
MAX_FILE_NAME_LENGTH == 255
MAX_CONCURRENT_UPLOADS == 3

MAX_FILES == MAX_FILES_PER_UPLOAD
PAGE_SIZE == 20
MAX_SELECTION_IMAGE_PICKER == MAX_IMAGE_PICKER_SELECTION
MAX_TOTAL_SIZE == MAX_TOTAL_SIZE_PER_UPLOAD

\* A MIME type "major/minor" is the pair <<major, minor>>; <<>> is the empty
\* string.
ALLOWED_IMAGE_TYPES ==
    { <<"image", "jpeg">>, <<"image", "png">>, <<"image", "gif">>,
      <<"image", "webp">>, <<"image", "heic">>, <<"image", "heif">> }

ALLOWED_VIDEO_TYPES ==
    { <<"video", "mp4">>, <<"video", "mov">>, <<"video", "avi">>,
      <<"video", "mkv">>, <<"video", "webm">> }

ALLOWED_DOCUMENT_TYPES ==
    { <<"application", "pdf">>, <<"application", "msword">>,
      <<"application", "vnd.openxmlformats-officedocument.wordprocessingml.document">>,
      <<"application", "vnd.ms-excel">>,
      <<"application", "vnd.openxmlformats-officedocument.spreadsheetml.sheet">>,
      <<"application", "vnd.ms-powerpoint">>,
      <<"application", "vnd.openxmlformats-officedocument.presentationml.presentation">>,
      <<"text", "plain">>, <<"text", "csv">>, <<"application", "zip">>,
      <<"application", "x-rar-compressed">>, <<"application", "x-7z-compressed">> }

\* ---------------------------------------------------------------- helpers
Min(a, b) == IF a < b THEN a ELSE b

Range(s) == { s[n] : n \in 1..Len(s) }

\* s.slice(0, n)
Take(s, n) == SubSeq(s, 1, Min(Len(s), n))

\* s.filter((_, i) => i !== index), index counted from 1
RemoveAt(s, index) == SubSeq(s, 1, index - 1) \o SubSeq(s, index + 1, Len(s))

\* ------------------------------------------------------------- validators
\* Faulty variant: the lower bound is missing.
isFileSizeValidNoLowerBound(size) == size <= MAX_FILE_SIZE

isFileSizeValid(size) == size > 0 /\ size <= MAX_FILE_SIZE

\* Faulty variant: every application/ and text/ type is let through by its
\* prefix, as images and videos are.
isFileTypeAllowedByPrefix(mimeType) ==
    Len(mimeType) > 0 /\ mimeType[1] \in { "image", "video", "application", "text" }

isFileTypeAllowed(mimeType) ==
    \/ mimeType \in (ALLOWED_IMAGE_TYPES \cup ALLOWED_VIDEO_TYPES \cup ALLOWED_DOCUMENT_TYPES)
    \/ (Len(mimeType) > 0 /\ mimeType[1] = "image")
    \/ (Len(mimeType) > 0 /\ mimeType[1] = "video")

isFileNameValid(name) == Len(name) > 0 /\ Len(name) <= MAX_FILE_NAME_LENGTH

RECURSIVE getTotalUploadSize(_)
getTotalUploadSize(fs) ==
    IF fs = << >> THEN 0 ELSE fs[1].size + getTotalUploadSize(Tail(fs))

isUploadSizeValid(fs) == getTotalUploadSize(fs) <= MAX_TOTAL_SIZE_PER_UPLOAD

\* ------------------------------------------------------------------ inputs
\* What a picker or a share intent can hand over: the name, MIME type and
\* size the device reports for one asset.
Assets ==
    { [name |-> "a.txt", type |-> <<"text", "plain">>, size |-> 2 * GiB],
      [name |-> "b.png", type |-> <<"image", "png">>, size |-> 5 * GiB],
      [name |-> "c.bin", type |-> <<"application", "octet-stream">>, size |-> 2 * GiB],
      [name |-> "d.zip", type |-> <<"application", "zip">>, size |-> 5 * GiB + 1] }

AssetGroups == UNION { [1..n -> Assets] : n \in 1..MaxGroup }

\* What an upload POST to the object store can end in: a response with an
\* HTTP status, or a fetch that rejects (no response).
PostOutcomes ==
    { [rejected |-> FALSE, status |-> 204],
      [rejected |-> FALSE, status |-> 300],
      [rejected |-> TRUE, status |-> 0] }

\* The broker refuses a credential for a file above its own cap.
maxFileSize == 5 * GiB

\* ------------------------------------------------------------------- state
VARIABLES
    files,          \* the upload queue (useState)
    selectionMode,  \* bulk-selection mode of the list (useState)
    admitted,       \* number of items admitted so far
    picker,         \* the picker call awaiting the user, with the queue its closure saw
    screen,         \* "open" while the screen is mounted, "closed" after goBack
    mutStatus,      \* uploadMutation status: idle, pending, success, error
    filesToUpload,  \* the array handed to mutationFn
    i,              \* loop variable of mutationFn: offset of the current window
    st,             \* state of each item of filesToUpload
    resp,           \* what each item's three requests have returned so far
    results,        \* mutationFn's results array
    log,            \* failures written with console.error
    reqs,           \* requests issued for each item: presign, post, commit
    alert,          \* the counts of the "Upload Complete" message
    runs,           \* mutationFn calls that have not returned
    place,          \* where in the queue each item of filesToUpload now is (0: removed)
    edits,          \* queue operations performed since the pending batch started
    texts,          \* shared URLs and texts received so far
    cand,           \* the asset a validation loop is looking at
    verdict,        \* what the loop recorded for it
    rows,           \* ids of the rows of table files
    objects,        \* ids of the files whose object is in the bucket
    listed,         \* ids of the files the manager's list shows (query cache)
    del,            \* the delete the manager is running, and where it is
    delAlert,       \* the alert handleDelete showed last
    delLog,         \* files whose delete-file failure went to console.error
    downloadingFiles, \* the manager's downloads: progress and name by file id
    dl,             \* where downloadFile is for each file
    folders,        \* the rows of table folders: name and parent_id by id
    cols,           \* name and folder_id of the rows of table files, by id
    issued,         \* the ids the database has generated
    dbError,        \* the error of the last insert, update or folder delete
    moving,         \* the item of the open move dialog (selectedItem)
    activeFolderId, \* the folder the folder picker is in
    pickerPath,     \* the picker's path: its breadcrumbs below "My Drive"
    pickerData,     \* the cached pages of the picker's folder query, by folder
    bucket,         \* the keys of the objects in the bucket, for every user
    presigned,      \* the keys an upload credential was issued for
    request,        \* the request the broker served last: caller and body
    response,       \* its response
    sequential,     \* the run of the sequential uploader: status, files, position
    selectedItems,  \* the file manager's selection
    bulk,           \* the bulk delete: the items of its closure and its position
    records,        \* the rows of one folder that a list query reads
    pages,          \* the pages the infinite query has fetched
    pageParam,      \* the cursor of the next page
    hasNextPage     \* whether a page is still to be fetched

vars == << files, selectionMode, admitted, picker, screen, mutStatus, filesToUpload,
           i, st, resp, results, log, reqs, alert, runs, place, edits, texts,
           cand, verdict, rows, objects, listed, del, delAlert, delLog,
           downloadingFiles, dl, folders, cols, issued, dbError,
           moving, activeFolderId, pickerPath, pickerData,
           bucket, presigned, request, response, sequential,
           selectedItems, bulk, records, pages, pageParam, hasNextPage >>

queueVars == << files, selectionMode, admitted, picker, texts >>
batchVars == << mutStatus, filesToUpload, i, st, resp, results, log, reqs,
                alert, runs >>

checkVars == << cand, verdict >>
managerVars == << rows, objects, listed, del, delAlert, delLog, downloadingFiles, dl >>
uploadVars == << queueVars, batchVars, screen, place, edits >>
driveVars == << folders, cols, issued, dbError >>
pickVars == << moving, activeFolderId, pickerPath, pickerData >>
brokerVars == << bucket, presigned, request, response >>
\* What the upload screen and the manager's download and delete of a file do
\* not touch.
bulkVars == << selectedItems, bulk >>
pageVars == << records, pages, pageParam, hasNextPage >>
otherVars == << driveVars, pickVars, brokerVars, sequential, bulkVars, pageVars >>

None == "none"
NoVerdict == [path |-> None, reason |-> None]
NoPicker == [kind |-> None, files |-> << >>]
NoResponse == [presign |-> None, post |-> << >>, record |-> None, fileRecord |-> << >>]
NoAlert == [shown |-> FALSE, succeeded |-> 0, failedCount |-> 0]

Terminal == { "Succeeded", "Failed" }
InFlight == { "RequestingCredential", "Transferring", "Committing" }

ScreenInit ==
    /\ files = << >>
    /\ selectionMode = FALSE
    /\ admitted = 0
    /\ picker = NoPicker
    /\ screen = "open"
    /\ mutStatus = "idle"
    /\ filesToUpload = << >>
    /\ i = 0
    /\ st = << >>
    /\ resp = << >>
    /\ results = << >>
    /\ log = {}
    /\ reqs = << >>
    /\ alert = NoAlert
    /\ runs = 0
    /\ place = << >>
    /\ edits = 0
    /\ texts = 0

\* The files the manager starts with: each has its row and its object.
FileIds == { "f1", "f2" }
NoDelete == [item |-> None, step |-> "idle"]
NoDeleteAlert == [kind |-> None, item |-> None]

ManagerInit ==
    /\ rows = FileIds
    /\ objects = FileIds
    /\ listed = FileIds
    /\ del = NoDelete
    /\ delAlert = NoDeleteAlert
    /\ delLog = {}
    /\ downloadingFiles = << >>
    /\ dl = [file \in FileIds |-> "idle"]

\* The ids the database generates for the folders and for the file records
\* of the uploads.
FolderIdPool == << "d1", "d2", "d3" >>
UploadIdPool == << "u1", "u2" >>
FolderIds == { FolderIdPool[n] : n \in 1..MaxFolders }
UploadIds == { UploadIdPool[n] : n \in 1..MaxUploads }
AllFileIds == FileIds \cup UploadIds
NoColumns == [name |-> None, folder_id |-> None]

\* The drive the manager starts with: the two files at the top level, no
\* folder.
DriveInit ==
    /\ folders = << >>
    /\ cols = [file \in AllFileIds |->
                 CASE file = "f1" -> [name |-> "a.txt", folder_id |-> None]
                   [] file = "f2" -> [name |-> "b.txt", folder_id |-> None]
                   [] OTHER -> NoColumns]
    /\ issued = {}
    /\ dbError = None

NoItem == [type |-> None, id |-> None, parent |-> None]

PickInit ==
    /\ moving = NoItem
    /\ activeFolderId = None
    /\ pickerPath = << >>
    /\ pickerData = << >>

NoBody == [action |-> None, fileName |-> None, fileSize |-> 0, s3Key |-> << >>]
NoRequest == [caller |-> None, body |-> NoBody]
NoReply == [status |-> 0, error |-> None, s3Key |-> << >>, uploadUrl |-> FALSE,
            signedUrl |-> << >>]

BrokerInit ==
    /\ bucket = {}
    /\ presigned = {}
    /\ request = NoRequest
    /\ response = NoReply

\* The sequential uploader before a run: results holds the indices of the
\* files pushed to results, started those whose first request was issued.
NoRun == [status |-> "idle", filesToUpload |-> << >>, file |-> 0, step |-> None,
          results |-> << >>, started |-> {}, alert |-> None]

\* No bulk delete runs: item is the position of the loop in itemsToDelete.
NoBulk == [itemsToDelete |-> << >>, item |-> 0]

BulkInit == selectedItems = {} /\ bulk = NoBulk

OtherInit == DriveInit /\ PickInit /\ BrokerInit /\ sequential = NoRun /\ BulkInit

\* The cursor before the first page: pageParam is undefined.
NoParam == [created_at |-> 0, id |-> 0]

\* An infinite query that has fetched nothing.
QueryInit == pages = << >> /\ pageParam = NoParam /\ hasNextPage = TRUE

Init ==
    /\ ScreenInit
    /\ ManagerInit
    /\ OtherInit
    /\ records = {}
    /\ QueryInit
    /\ cand = [name |-> "a.txt", type |-> <<"text", "plain">>, size |-> 2 * GiB]
    /\ verdict = NoVerdict


\* ------------------------------------------------------------- admissions
\* s.slice(0, n), for negative n as well
Slice0(s, n) ==
    IF n >= 0 THEN Take(s, n)
    ELSE IF Len(s) + n > 0 THEN SubSeq(s, 1, Len(s) + n) ELSE << >>

\* asset.fileName || asset.uri.split('/').pop() || ...: an asset without a
\* file name is called after the last segment of its uri.
FallbackName(asset) == IF asset.name # "" THEN asset.name ELSE "uri_tail"

\* asset.mimeType || (asset.type === 'video' ? 'video/mp4' : 'image/jpeg')
MediaMimeType(asset) == IF asset.type # << >> THEN asset.type ELSE <<"image", "jpeg">>

\* asset.mimeType || 'application/octet-stream'
DocMimeType(asset) ==
    IF asset.type # << >> THEN asset.type ELSE <<"application", "octet-stream">>

\* The candidate each admission path builds from an asset, and the checks it
\* runs on it (name, then size, then type).
MediaCandidate(asset) ==
    [name |-> FallbackName(asset), type |-> MediaMimeType(asset), size |-> asset.size]

DocCandidate(asset) ==
    [name |-> asset.name, type |-> DocMimeType(asset), size |-> asset.size]

ShareCandidate(asset) ==
    [name |-> FallbackName(asset), type |-> asset.type, size |-> asset.size]

MediaValid(asset) ==
    /\ isFileNameValid(FallbackName(asset))
    /\ isFileSizeValid(asset.size)
    /\ isFileTypeAllowed(MediaMimeType(asset))

\* Faulty variant: the document picker does not look at the type.
DocValidNoType(asset) ==
    /\ isFileNameValid(asset.name)
    /\ isFileSizeValid(asset.size)

DocValid(asset) ==
    /\ isFileNameValid(asset.name)
    /\ isFileSizeValid(asset.size)
    /\ isFileTypeAllowed(asset.type)

ShareValid(asset) ==
    /\ isFileNameValid(FallbackName(asset))
    /\ isFileSizeValid(asset.size)
    /\ isFileTypeAllowed(asset.type)

\* validFiles of pickMedia / pickFiles / processSharedFiles
MediaValidFiles(assets) ==
    LET ok == SelectSeq(assets, MediaValid)
    IN [n \in 1..Len(ok) |-> MediaCandidate(ok[n])]

DocValidFiles(assets) ==
    LET ok == SelectSeq(assets, DocValid)
    IN [n \in 1..Len(ok) |-> DocCandidate(ok[n])]

ShareValidFiles(assets) ==
    LET ok == SelectSeq(assets, ShareValid)
    IN [n \in 1..Len(ok) |-> ShareCandidate(ok[n])]

\* The validation loops: the first rule a candidate breaks (name, then size,
\* then type) decides the reason pushed to invalidFiles; a candidate that
\* breaks none is pushed to validFiles.
MediaReason(asset) ==
    IF ~isFileNameValid(FallbackName(asset)) THEN "invalid name"
    ELSE IF ~isFileSizeValid(asset.size) THEN "file too large"
    ELSE IF ~isFileTypeAllowed(MediaMimeType(asset)) THEN "unsupported file type"
    ELSE "valid"

DocReason(asset) ==
    IF ~isFileNameValid(asset.name) THEN "invalid name"
    ELSE IF ~isFileSizeValid(asset.size) THEN "file too large"
    ELSE IF ~isFileTypeAllowed(asset.type) THEN "unsupported file type"
    ELSE "valid"

ShareReason(asset) ==
    IF ~isFileNameValid(FallbackName(asset)) THEN "invalid name"
    ELSE IF ~isFileSizeValid(asset.size) THEN "file too large"
    ELSE IF ~isFileTypeAllowed(asset.type) THEN "unsupported file type"
    ELSE "valid"

\* The assets a validation loop can meet: a missing, a short and an overlong
\* name (256 characters), a missing type and types in and out of the lists, a
\* missing size (read as 0) and sizes around the limits.
LongName ==
    "nnnnnnnnnnnnnnnnnnnnnnnnnnnnnnnnnnnnnnnnnnnnnnnnnnnnnnnnnnnnnnnnnnnnnnnnnnnnnnnnnnnnnnnnnnnnnnnnnnnnnnnnnnnnnnnnnnnnnnnnnnnnnnnnnnnnnnnnnnnnnnnnnnnnnnnnnnnnnnnnnnnnnnnnnnnnnnnnnnnnnnnnnnnnnnnnnnnnnnnnnnnnnnnnnnnnnnnnnnnnnnnnnnnnnnnnnnnnnnnnnnnnnnnnnnnn.txt"

Candidates ==
    [name : { "", "a.txt", LongName },
     type : { << >>, <<"text", "plain">>, <<"application", "octet-stream">>,
              <<"image", "x-raw">>, <<"audio", "mpeg">> },
     size : { -1, 0, 1, MAX_FILE_SIZE, MAX_FILE_SIZE + 1 }]

\* One pass of the loop body of pickMedia, pickFiles or processSharedFiles
\* over the candidate.
Validate(path) ==
    /\ verdict = NoVerdict
    /\ verdict' =
         [path |-> path,
          reason |-> CASE path = "media" -> MediaReason(cand)
                       [] path = "doc" -> DocReason(cand)
                       [] path = "share" -> ShareReason(cand)]
    /\ UNCHANGED << queueVars, batchVars, screen, place, edits, cand >>
    /\ UNCHANGED managerVars
    /\ UNCHANGED otherVars

\* The modal surfaces that keep the user from the screen's buttons: a native
\* picker, and the "Upload Complete" alert whose OK leaves the screen.
UIFree == screen = "open" /\ picker.kind = None /\ ~alert.shown

\* The model's bound on the queue operations that overlap a pending batch.
EditAllowed == mutStatus = "pending" => edits < MaxEdits
Edited == edits' = IF mutStatus = "pending" THEN edits + 1 ELSE edits

\* pickMedia / pickFiles up to the await of the picker: the limit check and
\* the capture of the queue of this render.
PickStart(kind) ==
    /\ UIFree
    /\ Len(files) < MAX_FILES
    /\ picker' = [kind |-> kind, files |-> files]
    /\ EditAllowed /\ Edited
    /\ UNCHANGED << files, selectionMode, admitted, screen, texts, place >>
    /\ UNCHANGED batchVars
    /\ UNCHANGED checkVars
    /\ UNCHANGED managerVars
    /\ UNCHANGED otherVars

\* Faulty variant: the group is appended without the total-size check.
PickAdmittedUnchecked(kind, closure, assets) ==
    LET validFiles == IF kind = "media" THEN MediaValidFiles(assets) ELSE DocValidFiles(assets)
    IN IF Len(closure) + Len(validFiles) > MAX_FILES
       THEN Slice0(validFiles, MAX_FILES - Len(closure))
       ELSE validFiles

\* What the picker call that resumes with `assets` appends to the queue.
PickAdmitted(kind, closure, assets) ==
    LET validFiles == IF kind = "media" THEN MediaValidFiles(assets) ELSE DocValidFiles(assets)
        totalFiles == Len(closure) + Len(validFiles)
    IN IF Len(validFiles) = 0 THEN << >>
       ELSE IF ~isUploadSizeValid(closure \o validFiles) THEN << >>
       ELSE IF totalFiles > MAX_FILES THEN Slice0(validFiles, MAX_FILES - Len(closure))
       ELSE validFiles

\* The picker resolves with the user's selection (at most selectionLimit
\* assets for the media picker).
PickFinish(assets) ==
    /\ screen = "open"
    /\ picker.kind # None
    /\ picker.kind = "media" =>
         Len(assets) <= Min(MAX_FILES - Len(picker.files), MAX_SELECTION_IMAGE_PICKER)
    /\ LET added == PickAdmitted(picker.kind, picker.files, assets)
       IN /\ admitted + Len(added) <= MaxItems
          /\ files' = files \o added
          /\ admitted' = admitted + Len(added)
    /\ picker' = NoPicker
    /\ UNCHANGED << selectionMode, screen, texts, place, edits >>
    /\ UNCHANGED batchVars
    /\ UNCHANGED checkVars
    /\ UNCHANGED managerVars
    /\ UNCHANGED otherVars

\* result.canceled
PickCancel ==
    /\ screen = "open"
    /\ picker.kind # None
    /\ picker' = NoPicker
    /\ UNCHANGED << files, selectionMode, admitted, screen, texts, place, edits >>
    /\ UNCHANGED batchVars
    /\ UNCHANGED checkVars
    /\ UNCHANGED managerVars
    /\ UNCHANGED otherVars

\* What a share intent carrying the files `assets` appends to the queue.
ShareAdmitted(queue, assets) ==
    LET validFiles == ShareValidFiles(assets)
        filesToAdd == Slice0(validFiles, Min(Len(validFiles), MAX_FILES - Len(queue)))
    IN IF Len(validFiles) = 0 THEN << >>
       ELSE IF ~isUploadSizeValid(queue \o filesToAdd) THEN << >>
       ELSE filesToAdd

\* processSharedFiles for an intent with files: it runs without awaiting,
\* from the effect of the render that received the intent.
ShareFiles(assets) ==
    /\ screen = "open"
    /\ LET added == ShareAdmitted(files, assets)
       IN /\ Len(added) > 0
          /\ admitted + Len(added) <= MaxItems
          /\ files' = files \o added
          /\ admitted' = admitted + Len(added)
    /\ EditAllowed /\ Edited
    /\ UNCHANGED << selectionMode, picker, screen, texts, place >>
    /\ UNCHANGED batchVars
    /\ UNCHANGED checkVars
    /\ UNCHANGED managerVars
    /\ UNCHANGED otherVars


\* The text file made of a shared URL or a shared text: its size is the byte
\* length of the string (new Blob([...]).size), here a string of 1 KiB.
SharedTextFile(kind) ==
    [name |-> IF kind = "url" THEN "shared_url_0.txt" ELSE "shared_text_0.txt",
     type |-> <<"text", "plain">>,
     size |-> 1]

\* processSharedFiles for an intent with a webUrl or a text: the file is
\* appended unless the queue is full; no validator and no size check runs.
ShareText(kind) ==
    /\ screen = "open"
    /\ admitted + 1 <= MaxItems
    /\ texts < MaxTexts
    /\ texts' = texts + 1
    /\ files' = IF Len(files) >= MAX_FILES THEN files
                ELSE Append(files, SharedTextFile(kind))
    /\ admitted' = admitted + 1
    /\ EditAllowed /\ Edited
    /\ UNCHANGED << selectionMode, picker, screen, place >>
    /\ UNCHANGED batchVars
    /\ UNCHANGED checkVars
    /\ UNCHANGED managerVars
    /\ UNCHANGED otherVars

\* ------------------------------------------------------- large selections
\* A selection of n small files, valid on every admission path.
SmallAsset == [name |-> "a.txt", type |-> <<"text", "plain">>, size |-> 1]
ManyAssets(n) == [j \in 1..n |-> SmallAsset]

\* The sizes of the selections followed around the limits of the queue and
\* of the media picker.
GroupSizes == { MAX_SELECTION_IMAGE_PICKER, MAX_FILES - 1, MAX_FILES }

\* The picker resolves with a selection of n files.
PickFinishMany(n) ==
    /\ screen = "open"
    /\ picker.kind # None
    /\ picker.kind = "media" =>
         n <= Min(MAX_FILES - Len(picker.files), MAX_SELECTION_IMAGE_PICKER)
    /\ Len(picker.files) + n <= MaxQueued
    /\ Len(files) + n <= MaxQueued
    /\ files' = files \o PickAdmitted(picker.kind, picker.files, ManyAssets(n))
    /\ picker' = NoPicker
    /\ UNCHANGED << selectionMode, admitted, screen, texts, place, edits >>
    /\ UNCHANGED batchVars
    /\ UNCHANGED checkVars
    /\ UNCHANGED managerVars
    /\ UNCHANGED otherVars

\* processSharedFiles for an intent with n files.
ShareFilesMany(n) ==
    /\ screen = "open"
    /\ Len(files) + n <= MaxQueued
    /\ LET added == ShareAdmitted(files, ManyAssets(n))
       IN /\ Len(added) > 0
          /\ files' = files \o added
    /\ EditAllowed /\ Edited
    /\ UNCHANGED << selectionMode, admitted, picker, screen, texts, place >>
    /\ UNCHANGED batchVars
    /\ UNCHANGED checkVars
    /\ UNCHANGED managerVars
    /\ UNCHANGED otherVars

\* ------------------------------------------------------- queue operations
\* s.filter(...) keeping the positions outside `gone`
Without(s, gone) ==
    LET keep(n) == n \notin gone
        idx == SelectSeq([n \in 1..Len(s) |-> n], keep)
    IN [n \in 1..Len(idx) |-> s[idx[n]]]

\* Where the items of the batch are once the queue positions `gone` have left
\* the queue: the arrays share their elements, so a removal takes the
\* element out of the queue only.
Moved(gone) ==
    [j \in 1..Len(place) |->
        IF place[j] = 0 \/ place[j] \in gone THEN 0
        ELSE place[j] - Cardinality({ g \in gone : g < place[j] })]

\* removeFile(index): the trash button of a row, shown outside selection mode.
RemoveFile(index) ==
    /\ UIFree
    /\ ~selectionMode
    /\ index \in 1..Len(files)
    /\ files' = RemoveAt(files, index)
    /\ selectionMode' = IF Len(files) = 1 THEN FALSE ELSE selectionMode
    /\ place' = Moved({ index })
    /\ EditAllowed /\ Edited
    /\ UNCHANGED << admitted, picker, screen, texts >>
    /\ UNCHANGED batchVars
    /\ UNCHANGED checkVars
    /\ UNCHANGED managerVars
    /\ UNCHANGED otherVars

\* The "Clear All" button, shown while the queue is not empty.
ClearAll ==
    /\ UIFree
    /\ Len(files) > 0
    /\ files' = << >>
    /\ place' = Moved(1..Len(files))
    /\ EditAllowed /\ Edited
    /\ UNCHANGED << selectionMode, admitted, picker, screen, texts >>
    /\ UNCHANGED batchVars
    /\ UNCHANGED checkVars
    /\ UNCHANGED managerVars
    /\ UNCHANGED otherVars

\* toggleSelectionMode: the Select / Done button, shown for two items or more.
ToggleSelectionMode ==
    /\ UIFree
    /\ Len(files) > 1
    /\ selectionMode' = ~selectionMode
    /\ EditAllowed /\ Edited
    /\ UNCHANGED << files, admitted, picker, screen, texts, place >>
    /\ UNCHANGED batchVars
    /\ UNCHANGED checkVars
    /\ UNCHANGED managerVars
    /\ UNCHANGED otherVars

\* deleteSelected, confirmed: the rows the user ticked (the set `selected` of
\* positions) leave the queue.
DeleteSelected(selected) ==
    /\ UIFree
    /\ selectionMode
    /\ selected # {}
    /\ selected \subseteq 1..Len(files)
    /\ files' = Without(files, selected)
    /\ selectionMode' = FALSE
    /\ place' = Moved(selected)
    /\ EditAllowed /\ Edited
    /\ UNCHANGED << admitted, picker, screen, texts >>
    /\ UNCHANGED batchVars
    /\ UNCHANGED checkVars
    /\ UNCHANGED managerVars
    /\ UNCHANGED otherVars

\* ---------------------------------------------------------------- uploader
batchSize == MAX_CONCURRENT_UPLOADS

\* Faulty variants of the slice: the whole rest of the batch at once, and a
\* slice that starts over from the first item.
BatchSliceAll(off, n) == (off + 1)..n
BatchSliceFromStart(off, n) == 1..Min(off + batchSize, n)

\* filesToUpload.slice(off, off + batchSize): the positions (from 1) of the
\* window at offset off of a batch of n items.
BatchSlice(off, n) == (off + 1)..Min(off + batchSize, n)

\* for (let i = 0; i < filesToUpload.length; i += batchSize): the loop test.
LoopContinues(off, n) == off < n

\* Faulty variant: only 200 counts as success.
ResponseOkOnly200(status) == status = 200

\* uploadResponse.ok
ResponseOk(status) == status >= 200 /\ status <= 299

\* Faulty variants of the await: Promise.race (the first promise to settle
\* ends the wait), Promise.all (the first rejection throws), and a wait for
\* fulfilled promises only.
AwaitWindowAny(st1, win) ==
    IF \E j \in win : st1[j] \in { "Succeeded", "Failed" } THEN "settled" ELSE "wait"

AwaitWindowAll(st1, win) ==
    IF \E j \in win : st1[j] = "Failed" THEN "rejected"
    ELSE IF \A j \in win : st1[j] = "Succeeded" THEN "settled" ELSE "wait"

AwaitWindowFulfilled(st1, win) ==
    IF \A j \in win : st1[j] = "Succeeded" THEN "settled" ELSE "wait"

\* await of the window's promises: allSettled resolves once every promise of
\* the window has settled and never rejects. An await ends in "settled", in
\* "rejected" (it throws), or goes on waiting.
AwaitWindow(st1, win) ==
    IF \A j \in win : st1[j] \in Terminal THEN "settled" ELSE "wait"

\* Faulty variant: every settled promise is pushed, rejected ones too.
WindowResultsAll(batch, st1, win) ==
    LET settled(n) == n \in win /\ st1[n] \in { "Succeeded", "Failed" }
        idx == SelectSeq([n \in 1..Len(batch) |-> n], settled)
    IN [m \in 1..Len(idx) |-> [fileName |-> batch[idx[m]].name, fileId |-> idx[m]]]

\* The loop over batchResults: the value of each fulfilled promise of the
\* window, in the window's order; a rejected one is only logged.
WindowResults(batch, st1, win) ==
    LET fulfilled(n) == n \in win /\ st1[n] = "Succeeded"
        idx == SelectSeq([n \in 1..Len(batch) |-> n], fulfilled)
    IN [m \in 1..Len(idx) |-> [fileName |-> batch[idx[m]].name, fileId |-> idx[m]]]

\* onSuccess: the counts of the "Upload Complete" message, computed from the
\* queue of the latest render and the results.
OnSuccessAlert(queue, res) ==
    [shown |-> TRUE, succeeded |-> Len(res), failedCount |-> Len(queue) - Len(res)]

\* The failure count the message tells the user: it names failures only when
\* failedCount > 0.
ReportedFailed == IF alert.failedCount > 0 THEN alert.failedCount ELSE 0
ReportedSucceeded == alert.succeeded

\* batch.map(async (file) => ...) runs each item of the window up to its first
\* await: the get-presigned-url request is issued.
Launch(st1, win) ==
    [j \in 1..Len(st1) |-> IF j \in win THEN "RequestingCredential" ELSE st1[j]]

IssuePresign(reqs1, win) ==
    [j \in 1..Len(reqs1) |->
        IF j \in win THEN [reqs1[j] EXCEPT !.presign = @ + 1] ELSE reqs1[j]]

\* The Upload button: Button disables its Pressable when disabled || loading.
ButtonDisabled(disabled, loading) == disabled \/ loading

\* Faulty variant: the button does not look at the mutation's status.
UploadPressableUnguarded == Len(files) # 0 /\ ~selectionMode

UploadPressable ==
    ~ButtonDisabled(Len(files) = 0 \/ mutStatus = "pending" \/ selectionMode,
                    mutStatus = "pending")

\* handleUpload, and mutationFn up to its first await: the total-size check
\* and the launch of the first window.
HandleUpload ==
    /\ UIFree
    /\ UploadPressable
    /\ Len(files) # 0
    /\ filesToUpload' = files
    /\ resp' = [j \in 1..Len(files) |-> NoResponse]
    /\ results' = << >>
    /\ i' = 0
    /\ place' = [j \in 1..Len(files) |-> j]
    /\ edits' = 0
    /\ LET n == Len(files)
           st0 == [j \in 1..n |-> "Queued"]
           reqs0 == [j \in 1..n |-> [presign |-> 0, post |-> 0, commit |-> 0]]
       IN IF getTotalUploadSize(files) > MAX_TOTAL_SIZE
          THEN /\ mutStatus' = "error"
               /\ st' = st0
               /\ reqs' = reqs0
               /\ runs' = runs
          ELSE /\ mutStatus' = "pending"
               /\ st' = Launch(st0, BatchSlice(0, n))
               /\ reqs' = IssuePresign(reqs0, BatchSlice(0, n))
               /\ runs' = runs + 1
    /\ UNCHANGED << log, alert, screen >>
    /\ UNCHANGED queueVars
    /\ UNCHANGED checkVars
    /\ UNCHANGED managerVars
    /\ UNCHANGED otherVars

\* What follows a step of one item in the same turn of the event loop: when
\* the step settles the window, mutationFn resumes, collects the window and
\* either launches the next one or returns (onSuccess); when the await
\* throws, mutationFn rejects (onError).
Resume(st1, reqs1) ==
    LET n == Len(filesToUpload)
        win == BatchSlice(i, n)
        awaited == AwaitWindow(st1, win)
        res1 == results \o WindowResults(filesToUpload, st1, win)
        next == BatchSlice(i + batchSize, n)
    IN CASE awaited = "wait" ->
              /\ st' = st1
              /\ reqs' = reqs1
              /\ UNCHANGED << i, results, mutStatus, alert, runs >>
         [] awaited = "rejected" ->
              /\ st' = st1
              /\ reqs' = reqs1
              /\ mutStatus' = "error"
              /\ runs' = runs - 1
              /\ UNCHANGED << i, results, alert >>
         [] awaited = "settled" /\ LoopContinues(i + batchSize, n) ->
              /\ i' = i + batchSize
              /\ results' = res1
              /\ st' = Launch(st1, next)
              /\ reqs' = IssuePresign(reqs1, next)
              /\ UNCHANGED << mutStatus, alert, runs >>
         [] awaited = "settled" /\ ~LoopContinues(i + batchSize, n) ->
              /\ i' = i + batchSize
              /\ results' = res1
              /\ st' = st1
              /\ reqs' = reqs1
              /\ mutStatus' = "success"
              /\ alert' = OnSuccessAlert(files, res1)
              /\ runs' = runs - 1

\* Step 1 answers: supabase.functions.invoke of get-presigned-url returns
\* data (ok) or an error. With data, the upload POST is issued.
PresignReturn(j, ok) ==
    /\ mutStatus = "pending"
    /\ j \in 1..Len(filesToUpload)
    /\ st[j] = "RequestingCredential"
    /\ ok => filesToUpload[j].size <= maxFileSize
    /\ resp' = [resp EXCEPT ![j].presign = IF ok THEN "data" ELSE "error"]
    /\ IF ok
       THEN /\ Resume([st EXCEPT ![j] = "Transferring"],
                      [reqs EXCEPT ![j].post = @ + 1])
            /\ log' = log
       ELSE /\ Resume([st EXCEPT ![j] = "Failed"], reqs)
            /\ log' = log \cup { [item |-> j, reason |-> "presignedError"] }
    /\ UNCHANGED << filesToUpload, screen, place, edits >>
    /\ UNCHANGED queueVars
    /\ UNCHANGED checkVars
    /\ UNCHANGED managerVars
    /\ UNCHANGED otherVars

\* Step 2 answers: the POST to the object store returns a status, or fetch
\* rejects. With an ok status, the create-file-record request is issued.
UploadReturn(j, outcome) ==
    /\ mutStatus = "pending"
    /\ j \in 1..Len(filesToUpload)
    /\ st[j] = "Transferring"
    /\ resp' = [resp EXCEPT ![j].post = << outcome >>]
    /\ IF ~outcome.rejected /\ ResponseOk(outcome.status)
       THEN /\ Resume([st EXCEPT ![j] = "Committing"],
                      [reqs EXCEPT ![j].commit = @ + 1])
            /\ log' = log
       ELSE /\ Resume([st EXCEPT ![j] = "Failed"], reqs)
            /\ log' = log \cup
                 { [item |-> j,
                    reason |-> IF outcome.rejected THEN "fetchError" ELSE "S3 upload failed"] }
    /\ UNCHANGED << filesToUpload, screen, place, edits >>
    /\ UNCHANGED queueVars
    /\ UNCHANGED checkVars
    /\ UNCHANGED managerVars
    /\ UNCHANGED otherVars

\* The key the broker allocates for a file: the user's id, a timestamp with a
\* random suffix, and the file name.
S3Key(fileName) == << "user", "stamp", fileName >>

\* The body of the create-file-record request for a file of the batch.
CommitBody(file) ==
    [action |-> "create-file-record", s3Key |-> S3Key(file.name),
     fileName |-> file.name, fileType |-> file.type, fileSize |-> file.size]

\* Faulty variant: the row is named after the storage key.
FileRecordNamedByKey(body) ==
    [name |-> body.s3Key, original_name |-> body.fileName,
     mime_type |-> body.fileType, size_bytes |-> body.fileSize, s3_key |-> body.s3Key]

\* The row the broker inserts for a create-file-record request.
FileRecord(body) ==
    [name |-> body.fileName, original_name |-> body.fileName,
     mime_type |-> body.fileType, size_bytes |-> body.fileSize, s3_key |-> body.s3Key]

\* Step 3 answers: create-file-record returns the file record (ok) or an
\* error.
CommitReturn(j, ok) ==
    /\ mutStatus = "pending"
    /\ j \in 1..Len(filesToUpload)
    /\ st[j] = "Committing"
    /\ resp' = [resp EXCEPT ![j].record = IF ok THEN "data" ELSE "error",
                            ![j].fileRecord =
                                IF ok THEN << FileRecord(CommitBody(filesToUpload[j])) >>
                                ELSE << >>]
    /\ IF ok
       THEN /\ Resume([st EXCEPT ![j] = "Succeeded"], reqs)
            /\ log' = log
       ELSE /\ Resume([st EXCEPT ![j] = "Failed"], reqs)
            /\ log' = log \cup { [item |-> j, reason |-> "recordError"] }
    /\ UNCHANGED << filesToUpload, screen, place, edits >>
    /\ UNCHANGED queueVars
    /\ UNCHANGED checkVars
    /\ UNCHANGED managerVars
    /\ UNCHANGED otherVars

\* OK of the "Upload Complete" alert: navigation.goBack().
AlertOK ==
    /\ screen = "open"
    /\ picker.kind = None
    /\ alert.shown
    /\ screen' = "closed"
    /\ UNCHANGED << place, edits >>
    /\ UNCHANGED queueVars
    /\ UNCHANGED batchVars
    /\ UNCHANGED checkVars
    /\ UNCHANGED managerVars
    /\ UNCHANGED otherVars

\* ------------------------------------------------------------ file manager
\* The numbers a quotient of two integers can be in JavaScript: a finite
\* number, kept as a fraction in lowest terms with a positive denominator,
\* NaN, or an infinity with its sign.
RECURSIVE GCD(_, _)
GCD(a, b) == IF b = 0 THEN a ELSE GCD(b, a % b)

Abs(a) == IF a < 0 THEN -a ELSE a

Number(num, den) ==
    LET g == GCD(Abs(num), Abs(den))
        s == IF den < 0 THEN -1 ELSE 1
    IN [kind |-> "finite", num |-> (s * num) \div g, den |-> (s * den) \div g]

NaN == [kind |-> "NaN", num |-> 0, den |-> 0]
Infinity(sign) == [kind |-> "Infinity", num |-> sign, den |-> 0]

\* a / b
Divide(a, b) ==
    IF b # 0 THEN Number(a, b)
    ELSE IF a = 0 THEN NaN
    ELSE Infinity(IF a > 0 THEN 1 ELSE -1)

\* { ...prev, [key]: value } and delete prev[key]
Put(obj, key, value) ==
    [k \in (DOMAIN obj) \cup { key } |-> IF k = key THEN value ELSE obj[k]]
Drop(obj, key) == [k \in (DOMAIN obj) \ { key } |-> obj[k]]

\* What a progress callback of a download can report: the bytes written so
\* far and the bytes expected, which is the Content-Length of the response,
\* 0 for an empty object and -1 when the response carries no length.
ProgressReports ==
    { r \in [totalBytesWritten : 0..MaxBytes, totalBytesExpectedToWrite : (-1)..MaxBytes] :
        r.totalBytesExpectedToWrite > 0 =>
            r.totalBytesWritten <= r.totalBytesExpectedToWrite }

\* Faulty variant: downloadFile without the guard on downloadingFiles.
DownloadFileUnguarded(file) ==
    /\ file \in listed
    /\ downloadingFiles' =
         Put(downloadingFiles, file, [progress |-> Number(0, 1), name |-> file])
    /\ dl' = [dl EXCEPT ![file] = "signing"]
    /\ UNCHANGED << rows, objects, listed, del, delAlert, delLog >>
    /\ UNCHANGED << uploadVars, checkVars, otherVars >>

\* downloadFile up to its first await: the guard against a second download
\* of the file, the entry with progress 0, and the get-signed-url request.
DownloadFile(file) ==
    /\ file \in listed
    /\ file \notin DOMAIN downloadingFiles
    /\ downloadingFiles' =
         Put(downloadingFiles, file, [progress |-> Number(0, 1), name |-> file])
    /\ dl' = [dl EXCEPT ![file] = "signing"]
    /\ UNCHANGED << rows, objects, listed, del, delAlert, delLog >>
    /\ UNCHANGED << uploadVars, checkVars, otherVars >>

\* get-signed-url answers: with a URL the download starts; with an error the
\* catch block alerts and the finally block drops the entry.
SignedUrlReturn(file, ok) ==
    /\ dl[file] = "signing"
    /\ IF ok
       THEN /\ dl' = [dl EXCEPT ![file] = "downloading"]
            /\ UNCHANGED downloadingFiles
       ELSE /\ dl' = [dl EXCEPT ![file] = "idle"]
            /\ downloadingFiles' = Drop(downloadingFiles, file)
    /\ UNCHANGED << rows, objects, listed, del, delAlert, delLog >>
    /\ UNCHANGED << uploadVars, checkVars, otherVars >>

\* The progress callback handed to createDownloadResumable.
DownloadProgress(file, downloadProgress) ==
    /\ dl[file] = "downloading"
    /\ LET progress == Divide(downloadProgress.totalBytesWritten,
                              downloadProgress.totalBytesExpectedToWrite)
       IN downloadingFiles' =
            Put(downloadingFiles, file,
                [progress |-> progress, name |-> downloadingFiles[file].name])
    /\ UNCHANGED << rows, objects, listed, del, delAlert, delLog, dl >>
    /\ UNCHANGED << uploadVars, checkVars, otherVars >>

\* downloadAsync returns: with status 200, which takes the object to be in
\* the bucket, the share sheet opens; otherwise the catch block alerts and
\* the finally block drops the entry.
DownloadReturn(file, ok) ==
    /\ dl[file] = "downloading"
    /\ ok => file \in objects
    /\ IF ok
       THEN /\ dl' = [dl EXCEPT ![file] = "sharing"]
            /\ UNCHANGED downloadingFiles
       ELSE /\ dl' = [dl EXCEPT ![file] = "idle"]
            /\ downloadingFiles' = Drop(downloadingFiles, file)
    /\ UNCHANGED << rows, objects, listed, del, delAlert, delLog >>
    /\ UNCHANGED << uploadVars, checkVars, otherVars >>

\* Sharing.shareAsync settles; the finally block drops the entry.
ShareReturn(file) ==
    /\ dl[file] = "sharing"
    /\ dl' = [dl EXCEPT ![file] = "idle"]
    /\ downloadingFiles' = Drop(downloadingFiles, file)
    /\ UNCHANGED << rows, objects, listed, del, delAlert, delLog >>
    /\ UNCHANGED << uploadVars, checkVars, otherVars >>

\* handleDelete of a file up to its first await: deleteFileMutation starts
\* and asks the database to delete the row. The alert of the delete before
\* has been dismissed.
HandleDelete(file) ==
    /\ file \in listed
    /\ del.step = "idle"
    /\ del' = [item |-> file, step |-> "db"]
    /\ delAlert' = NoDeleteAlert
    /\ UNCHANGED << rows, objects, listed, delLog, downloadingFiles, dl >>
    /\ UNCHANGED << uploadVars, checkVars, otherVars >>

\* Faulty variant: the mutation goes on to delete-file whatever the database
\* answered.
RowDeleteReturnNoThrow(ok) ==
    /\ del.step = "db"
    /\ bulk.item = 0
    /\ rows' = IF ok THEN rows \ { del.item } ELSE rows
    /\ del' = [del EXCEPT !.step = "s3"]
    /\ UNCHANGED << objects, listed, delAlert, delLog, downloadingFiles, dl >>
    /\ UNCHANGED << uploadVars, checkVars, otherVars >>

\* The database answers the row delete. Without an error the row is gone and
\* the delete-file request for the object is issued; with an error the
\* mutation rejects and handleDelete alerts.
RowDeleteReturn(ok) ==
    /\ del.step = "db"
    /\ bulk.item = 0
    /\ IF ok
       THEN /\ rows' = rows \ { del.item }
            /\ del' = [del EXCEPT !.step = "s3"]
            /\ UNCHANGED delAlert
       ELSE /\ UNCHANGED rows
            /\ del' = NoDelete
            /\ delAlert' = [kind |-> "Error", item |-> del.item]
    /\ UNCHANGED << objects, listed, delLog, downloadingFiles, dl >>
    /\ UNCHANGED << uploadVars, checkVars, otherVars >>

\* The broker answers delete-file. Without an error the object is gone, the
\* queries are invalidated and handleDelete alerts the success; with an
\* error the mutation logs it and rejects, and handleDelete alerts the error.
DeleteFileReturn(ok) ==
    /\ del.step = "s3"
    /\ bulk.item = 0
    /\ IF ok
       THEN /\ objects' = objects \ { del.item }
            /\ listed' = rows
            /\ delAlert' = [kind |-> "Success", item |-> del.item]
            /\ UNCHANGED delLog
       ELSE /\ UNCHANGED << objects, listed >>
            /\ delLog' = delLog \cup { del.item }
            /\ delAlert' = [kind |-> "Error", item |-> del.item]
    /\ del' = NoDelete
    /\ UNCHANGED << rows, downloadingFiles, dl >>
    /\ UNCHANGED << uploadVars, checkVars, otherVars >>

\* The files query runs again (a reconnect, a stale cache, an invalidation
\* from another screen): the list shows the rows of the table.
Refetch ==
    /\ listed # rows
    /\ listed' = rows
    /\ UNCHANGED << rows, objects, del, delAlert, delLog, downloadingFiles, dl >>
    /\ UNCHANGED << uploadVars, checkVars, otherVars >>

\* ------------------------------------------------------------ bulk delete
\* The order of the list: created_at descending.
ListOrder == << "f2", "f1" >>

\* allItems.filter((item) => selectedItems.has(item.id))
ItemsToDelete == SelectSeq(ListOrder, LAMBDA id : id \in listed /\ id \in selectedItems)

\* A tap on a row in selection mode.
toggleItemSelection(id) ==
    /\ id \in listed
    /\ bulk.item = 0
    /\ selectedItems' = IF id \in selectedItems THEN selectedItems \ { id }
                        ELSE selectedItems \cup { id }
    /\ UNCHANGED bulk
    /\ UNCHANGED managerVars
    /\ UNCHANGED << uploadVars, checkVars, driveVars, pickVars, brokerVars, sequential, pageVars >>

\* bulkDelete and the Delete button of its alert, up to the first await of
\* the loop: the mutation of the first item asks the database to delete the
\* row.
bulkDelete ==
    /\ selectedItems # {}
    /\ ItemsToDelete # << >>
    /\ bulk.item = 0
    /\ del.step = "idle"
    /\ bulk' = [itemsToDelete |-> ItemsToDelete, item |-> 1]
    /\ del' = [item |-> ItemsToDelete[1], step |-> "db"]
    /\ delAlert' = NoDeleteAlert
    /\ UNCHANGED selectedItems
    /\ UNCHANGED << rows, objects, listed, delLog, downloadingFiles, dl >>
    /\ UNCHANGED << uploadVars, checkVars, driveVars, pickVars, brokerVars, sequential, pageVars >>

\* The database answers the row delete of the loop's item: with an error
\* mutateAsync rejects and the catch block of the loop alerts.
BulkRowDeleteReturn(ok) ==
    /\ bulk.item # 0
    /\ del.step = "db"
    /\ IF ok
       THEN /\ rows' = rows \ { del.item }
            /\ del' = [del EXCEPT !.step = "s3"]
            /\ UNCHANGED << delAlert, bulk >>
       ELSE /\ UNCHANGED rows
            /\ del' = NoDelete
            /\ delAlert' = [kind |-> "Error", item |-> None]
            /\ bulk' = NoBulk
    /\ UNCHANGED selectedItems
    /\ UNCHANGED << objects, listed, delLog, downloadingFiles, dl >>
    /\ UNCHANGED << uploadVars, checkVars, driveVars, pickVars, brokerVars, sequential, pageVars >>

\* The broker answers delete-file for the loop's item. Without an error the
\* object is gone, the queries are invalidated and the loop goes to the next
\* item, or ends: the selection is cleared and the success alerted. With an
\* error the mutation logs it and rejects: the catch block of the loop
\* alerts and the items after this one are left alone.
BulkDeleteFileReturn(ok) ==
    /\ bulk.item # 0
    /\ del.step = "s3"
    /\ IF ok
       THEN /\ objects' = objects \ { del.item }
            /\ listed' = rows
            /\ UNCHANGED delLog
            /\ IF bulk.item < Len(bulk.itemsToDelete)
               THEN /\ bulk' = [bulk EXCEPT !.item = @ + 1]
                    /\ del' = [item |-> bulk.itemsToDelete[bulk.item + 1], step |-> "db"]
                    /\ UNCHANGED << delAlert, selectedItems >>
               ELSE /\ bulk' = NoBulk
                    /\ del' = NoDelete
                    /\ delAlert' = [kind |-> "Success", item |-> None]
                    /\ selectedItems' = {}
       ELSE /\ UNCHANGED << objects, listed, selectedItems >>
            /\ delLog' = delLog \cup { del.item }
            /\ delAlert' = [kind |-> "Error", item |-> None]
            /\ bulk' = NoBulk
            /\ del' = NoDelete
    /\ UNCHANGED << rows, downloadingFiles, dl >>
    /\ UNCHANGED << uploadVars, checkVars, driveVars, pickVars, brokerVars, sequential, pageVars >>

\* ------------------------------------------------------------------ drive
\* The tables folders and files of one user. parent_id and folder_id are
\* None (NULL) at the top level.
FolderNames == { "docs", "pics" }
FileNames == { "a.txt", "b.txt" }

\* The id the database generates next: one it has not generated before.
HasNewId(pool, ids) == \E n \in 1..Len(pool) : pool[n] \in ids \ issued
NewId(pool, ids) ==
    pool[CHOOSE n \in 1..Len(pool) :
           /\ pool[n] \in ids \ issued
           /\ \A m \in 1..(n - 1) : pool[m] \notin ids \ issued]

\* UNIQUE(user_id, parent_id, name) and UNIQUE(user_id, folder_id, name): a
\* row conflicts with another row of equal columns; two NULLs are not equal,
\* so rows of the top level never conflict.
FolderConflict(id, name, parentId) ==
    /\ parentId # None
    /\ \E g \in (DOMAIN folders) \ { id } :
         folders[g].parent_id = parentId /\ folders[g].name = name

FileConflict(id, name, folderId) ==
    /\ folderId # None
    /\ \E f \in rows \ { id } :
         cols[f].folder_id = folderId /\ cols[f].name = name

\* REFERENCES folders(id): the parent named by a row exists.
ParentExists(parentId) == parentId = None \/ parentId \in DOMAIN folders

\* ON DELETE CASCADE: the folders that go with folder id, itself included,
\* and the file rows that go with them.
RECURSIVE Below(_, _)
Below(set, n) ==
    IF n = 0 THEN set
    ELSE Below(set \cup { g \in DOMAIN folders : folders[g].parent_id \in set }, n - 1)

CascadeFolders(id) == Below({ id }, Cardinality(DOMAIN folders))
CascadeFiles(id) == { f \in rows : cols[f].folder_id \in CascadeFolders(id) }

\* useCreateFolderMutation: insert a folder under the folder the user is in.
CreateFolder(name, parentId) ==
    /\ moving = NoItem \/ parentId = activeFolderId
    /\ HasNewId(FolderIdPool, FolderIds)
    /\ IF ~ParentExists(parentId) \/ FolderConflict(None, name, parentId)
       THEN /\ dbError' = IF ParentExists(parentId) THEN "unique" ELSE "foreign key"
            /\ UNCHANGED << folders, issued >>
       ELSE /\ folders' = Put(folders, NewId(FolderIdPool, FolderIds),
                              [name |-> name, parent_id |-> parentId])
            /\ issued' = issued \cup { NewId(FolderIdPool, FolderIds) }
            /\ dbError' = None
    /\ UNCHANGED << cols, pickVars >>
    /\ UNCHANGED << uploadVars, checkVars, managerVars, brokerVars, sequential, bulkVars, pageVars >>

\* The create-file-record action for an upload into folder folderId: the
\* object is in the bucket, the row is inserted unless a constraint refuses
\* it (status 500).
CreateFileRecord(fileName, folderId) ==
    /\ HasNewId(UploadIdPool, UploadIds)
    /\ LET id == NewId(UploadIdPool, UploadIds)
       IN IF ~ParentExists(folderId) \/ FileConflict(None, fileName, folderId)
          THEN /\ dbError' = IF ParentExists(folderId) THEN "unique" ELSE "foreign key"
               /\ UNCHANGED << rows, objects, cols, issued >>
          ELSE /\ rows' = rows \cup { id }
               /\ objects' = objects \cup { id }
               /\ cols' = [cols EXCEPT ![id] = [name |-> fileName, folder_id |-> folderId]]
               /\ issued' = issued \cup { id }
               /\ dbError' = None
    /\ UNCHANGED << folders, pickVars >>
    /\ UNCHANGED << listed, del, delAlert, delLog, downloadingFiles, dl >>
    /\ UNCHANGED << uploadVars, checkVars, brokerVars, sequential, bulkVars, pageVars >>

\* handleDelete of a folder: useDeleteFolderMutation deletes the row of the
\* folder; the database deletes the folders and the file rows below it.
DeleteFolder(id) ==
    /\ moving = NoItem
    /\ id \in DOMAIN folders
    /\ folders' = [g \in (DOMAIN folders) \ CascadeFolders(id) |-> folders[g]]
    /\ rows' = rows \ CascadeFiles(id)
    /\ dbError' = None
    /\ delAlert' = [kind |-> "Success", item |-> id]
    /\ UNCHANGED << cols, issued, pickVars >>
    /\ UNCHANGED << objects, listed, del, delLog, downloadingFiles, dl >>
    /\ UNCHANGED << uploadVars, checkVars, brokerVars, sequential, bulkVars, pageVars >>

\* The action sheet's Move button on an item of the manager's list: the move
\* dialog opens with a folder picker at "My Drive".
OpenMove(type, id) ==
    /\ moving = NoItem
    /\ \/ type = "folder" /\ id \in DOMAIN folders
       \/ type = "file" /\ id \in rows \cap listed
    /\ moving' = [type |-> type, id |-> id,
                  parent |-> IF type = "folder" THEN folders[id].parent_id
                             ELSE cols[id].folder_id]
    /\ activeFolderId' = None
    /\ pickerPath' = << >>
    /\ UNCHANGED << pickerData, driveVars >>
    /\ UNCHANGED << uploadVars, checkVars, managerVars, brokerVars, sequential, bulkVars, pageVars >>

\* A press outside the dialog closes it.
CloseMove ==
    /\ moving # NoItem
    /\ moving' = NoItem
    /\ activeFolderId' = None
    /\ pickerPath' = << >>
    /\ UNCHANGED << pickerData, driveVars >>
    /\ UNCHANGED << uploadVars, checkVars, managerVars, brokerVars, sequential, bulkVars, pageVars >>

\* usePickerFoldersQuery fetches the folders of the picker's folder; until it
\* has, the picker shows the pages the cache holds for that folder.
PickerFetch ==
    /\ moving # NoItem
    /\ pickerData' = Put(pickerData, activeFolderId,
                         { g \in DOMAIN folders : folders[g].parent_id = activeFolderId })
    /\ pickerData' # pickerData
    /\ UNCHANGED << moving, activeFolderId, pickerPath, driveVars >>
    /\ UNCHANGED << uploadVars, checkVars, managerVars, brokerVars, sequential, bulkVars, pageVars >>

\* The folders the picker shows: the cached ones, without the folder that is
\* being moved.
filteredFolders ==
    IF activeFolderId \notin DOMAIN pickerData THEN {}
    ELSE { g \in pickerData[activeFolderId] :
             ~(moving.type = "folder" /\ g = moving.id) }

\* A press on a folder of the picker.
handleNavigate(folder) ==
    /\ moving # NoItem
    /\ folder \in filteredFolders
    /\ Len(pickerPath) < MaxFolders
    /\ activeFolderId' = folder
    /\ pickerPath' = Append(pickerPath, folder)
    /\ UNCHANGED << moving, pickerData, driveVars >>
    /\ UNCHANGED << uploadVars, checkVars, managerVars, brokerVars, sequential, bulkVars, pageVars >>

\* A press on breadcrumb index (0 is "My Drive"), or on Back.
handleBreadcrumbNavigate(index) ==
    /\ moving # NoItem
    /\ index \in 0..(Len(pickerPath) - 1)
    /\ pickerPath' = SubSeq(pickerPath, 1, index)
    /\ activeFolderId' = IF index = 0 THEN None ELSE pickerPath[index]
    /\ UNCHANGED << moving, pickerData, driveVars >>
    /\ UNCHANGED << uploadVars, checkVars, managerVars, brokerVars, sequential, bulkVars, pageVars >>

\* The picker's Move button, enabled unless the picker is in the folder the
\* item is in: handleMove updates parent_id or folder_id of the item's row.
\* On success the dialog closes; on an error it stays.
handleMove ==
    /\ moving # NoItem
    /\ activeFolderId # moving.parent
    /\ LET id == moving.id
           dest == activeFolderId
           gone == IF moving.type = "folder" THEN id \notin DOMAIN folders
                   ELSE id \notin rows
           refused ==
               \/ ~ParentExists(dest)
               \/ moving.type = "folder" /\ ~gone /\ FolderConflict(id, folders[id].name, dest)
               \/ moving.type = "file" /\ ~gone /\ FileConflict(id, cols[id].name, dest)
       IN IF refused
          THEN /\ dbError' = IF ParentExists(dest) THEN "unique" ELSE "foreign key"
               /\ UNCHANGED << folders, cols, moving, activeFolderId, pickerPath >>
          ELSE /\ folders' = IF moving.type = "folder" /\ ~gone
                             THEN [folders EXCEPT ![id].parent_id = dest] ELSE folders
               /\ cols' = IF moving.type = "file" /\ ~gone
                          THEN [cols EXCEPT ![id].folder_id = dest] ELSE cols
               /\ dbError' = None
               /\ moving' = NoItem
               /\ activeFolderId' = None
               /\ pickerPath' = << >>
    /\ UNCHANGED << issued, pickerData >>
    /\ UNCHANGED << uploadVars, checkVars, managerVars, brokerVars, sequential, bulkVars, pageVars >>

\* ------------------------------------------------------------- pagination
\* useFilesQuery, useFoldersQuery and usePickerFoldersQuery read the rows of
\* one folder page by page. A row is its created_at and its id.
Times == 1..MaxTimes

\* The rows of a folder: n rows with ids 1..n, their created_at values cut
\* into runs of equal values in every way.
Tables ==
    UNION { { { [created_at |-> 1 + Cardinality({ k \in DOMAIN cut : cut[k] < id }),
                 id |-> id] : id \in 1..n } :
              cut \in [1..(MaxTimes - 1) -> 0..n] } :
            n \in (PAGE_SIZE - 1)..(PAGE_SIZE + MaxExtra) }

\* .order('created_at', { ascending: false }).order('id', { ascending: false })
Before(a, b) ==
    \/ a.created_at > b.created_at
    \/ a.created_at = b.created_at /\ a.id > b.id

Ordered(set) ==
    [k \in 1..Cardinality(set) |->
        CHOOSE r \in set : Cardinality({ q \in set : Before(q, r) }) = k - 1]

\* if (pageParam?.created_at) query = query.lt('created_at', pageParam.created_at)
CursorPasses(param, row) ==
    param.created_at # 0 => row.created_at < param.created_at

\* queryFn: the first PAGE_SIZE rows, in order, that pass the cursor.
queryFn(param) ==
    LET hits == Ordered({ row \in records : CursorPasses(param, row) })
    IN Take(hits, PAGE_SIZE)

\* getNextPageParam: undefined after a short page, else the last row's
\* created_at and id.
HasNextPageParam(lastPage) == Len(lastPage) >= PAGE_SIZE
getNextPageParam(lastPage) ==
    IF HasNextPageParam(lastPage)
    THEN [created_at |-> lastPage[Len(lastPage)].created_at,
          id |-> lastPage[Len(lastPage)].id]
    ELSE NoParam

\* The first fetch, or fetchNextPage.
FetchPage ==
    /\ hasNextPage
    /\ LET page == queryFn(pageParam)
       IN /\ pages' = Append(pages, page)
          /\ pageParam' = getNextPageParam(page)
          /\ hasNextPage' = HasNextPageParam(page)
    /\ UNCHANGED records
    /\ UNCHANGED << uploadVars, checkVars, managerVars, driveVars, pickVars, brokerVars,
                    sequential, bulkVars >>

\* data.pages.flatMap((page) => page.data)
RECURSIVE FlatMap(_)
FlatMap(ps) == IF ps = << >> THEN << >> ELSE Head(ps) \o FlatMap(Tail(ps))

\* ----------------------------------------------------------------- broker
\* The edge function upload-to-s3, with its secrets set, serving the requests
\* of two users and of callers without a session.
Users == { "alice", "bob" }
Callers == Users \cup { None }

\* A storage key `${user.id}/${timestamp}-${randomSuffix}-${fileName}` is the
\* triple of its parts.
Keys == { << user, "stamp", fileName >> : user \in Users, fileName \in FileNames }

Bodies ==
    [action : { "get-presigned-url" }, fileName : FileNames,
     fileSize : { 1, maxFileSize, maxFileSize + 1, 2 * maxFileSize }, s3Key : { << >> }]
    \cup [action : { "get-signed-url", "delete-file" }, fileName : { None },
          fileSize : { 0 }, s3Key : Keys \cup { << >> }]
    \cup [action : { "list" }, fileName : { None }, fileSize : { 0 }, s3Key : { << >> }]

Reply(status, error) == [NoReply EXCEPT !.status = status, !.error = error]

\* Faulty variant: the action has no cap.
OverCapNever(fileSize) == FALSE

\* fileSize > maxFileSize
OverCap(fileSize) == fileSize > maxFileSize

\* What the function answers to body sent by caller; s3ok tells whether the
\* call of the S3 client it makes, if any, goes through.
Serve(caller, body, s3ok) ==
    IF caller = None THEN Reply(401, "Unauthorized")
    ELSE CASE body.action = "get-presigned-url" ->
                IF OverCap(body.fileSize)
                THEN Reply(413, "File size exceeds 5GB limit.")
                ELSE IF ~s3ok THEN Reply(500, "s3")
                ELSE [NoReply EXCEPT !.status = 200,
                                     !.s3Key = << caller, "stamp", body.fileName >>,
                                     !.uploadUrl = TRUE]
           [] body.action = "get-signed-url" ->
                IF body.s3Key = << >> THEN Reply(400, "s3Key is required")
                ELSE IF ~s3ok THEN Reply(500, "s3")
                ELSE [NoReply EXCEPT !.status = 200, !.signedUrl = body.s3Key]
           [] body.action = "delete-file" ->
                IF body.s3Key = << >> THEN Reply(400, "s3Key is required")
                ELSE IF ~s3ok THEN Reply(500, "Failed to delete file from S3")
                ELSE Reply(200, None)
           [] OTHER -> Reply(400, "Invalid action")

\* The function serves one request: it answers, and a delete-file that went
\* through has deleted the object.
Request(caller, body, s3ok) ==
    /\ request' = [caller |-> caller, body |-> body]
    /\ response' = Serve(caller, body, s3ok)
    /\ bucket' = IF body.action = "delete-file" /\ response'.status = 200
                 THEN bucket \ { body.s3Key } ELSE bucket
    /\ presigned' = IF response'.uploadUrl THEN presigned \cup { response'.s3Key }
                    ELSE presigned
    /\ UNCHANGED << uploadVars, checkVars, managerVars, driveVars, pickVars, sequential, bulkVars, pageVars >>

\* A client posts a file with a credential it was issued.
PostObject(key) ==
    /\ key \in presigned
    /\ key \notin bucket
    /\ bucket' = bucket \cup { key }
    /\ UNCHANGED << presigned, request, response >>
    /\ UNCHANGED << uploadVars, checkVars, managerVars, driveVars, pickVars, sequential, bulkVars, pageVars >>

\* ---------------------------------------------------- sequential uploader
\* The upload screen that sends its queue one file after the other. Its
\* pickers queue whatever the user picked.
FileLists == UNION { [1..n -> Assets] : n \in 1..MaxSequential }

\* The loop goes to the next file, or returns results.
SequentialNext(run) ==
    IF run.file < Len(run.filesToUpload)
    THEN [run EXCEPT !.file = @ + 1, !.step = "presign",
                     !.started = @ \cup { run.file + 1 }]
    ELSE [run EXCEPT !.status = "success", !.step = None, !.alert = "Success"]

\* A throw in the loop body: the mutation fails, onError alerts.
SequentialThrow(run) == [run EXCEPT !.status = "error", !.step = None, !.alert = "Error"]

\* handleUpload: mutate(files), up to the first get-presigned-url request.
SequentialHandleUpload(list) ==
    /\ sequential.status = "idle"
    /\ sequential' = [NoRun EXCEPT !.status = "pending", !.filesToUpload = list,
                                   !.file = 1, !.step = "presign", !.started = { 1 }]
    /\ UNCHANGED << uploadVars, checkVars, managerVars, driveVars, pickVars, brokerVars, bulkVars, pageVars >>

\* Step 1 answers: with an error the loop throws.
SequentialPresignReturn(ok) ==
    /\ sequential.status = "pending"
    /\ sequential.step = "presign"
    /\ ok => sequential.filesToUpload[sequential.file].size <= maxFileSize
    /\ sequential' = IF ok THEN [sequential EXCEPT !.step = "post"]
                     ELSE SequentialThrow(sequential)
    /\ UNCHANGED << uploadVars, checkVars, managerVars, driveVars, pickVars, brokerVars, bulkVars, pageVars >>

\* Step 2 answers: without an ok status, or when fetch rejects, the loop
\* throws.
SequentialUploadReturn(outcome) ==
    /\ sequential.status = "pending"
    /\ sequential.step = "post"
    /\ sequential' = IF ~outcome.rejected /\ ResponseOk(outcome.status)
                     THEN [sequential EXCEPT !.step = "commit"]
                     ELSE SequentialThrow(sequential)
    /\ UNCHANGED << uploadVars, checkVars, managerVars, driveVars, pickVars, brokerVars, bulkVars, pageVars >>

\* Step 3 answers: with an error the loop throws; otherwise the file goes to
\* results and the loop goes on.
SequentialCommitReturn(ok) ==
    /\ sequential.status = "pending"
    /\ sequential.step = "commit"
    /\ sequential' =
         IF ok
         THEN SequentialNext([sequential EXCEPT !.results = Append(@, sequential.file)])
         ELSE SequentialThrow(sequential)
    /\ UNCHANGED << uploadVars, checkVars, managerVars, driveVars, pickVars, brokerVars, bulkVars, pageVars >>

\* The alert is dismissed and the screen is used again.
SequentialReset ==
    /\ sequential.status \in { "success", "error" }
    /\ sequential' = NoRun
    /\ UNCHANGED << uploadVars, checkVars, managerVars, driveVars, pickVars, brokerVars, bulkVars, pageVars >>

\* ----------------------------------------------------------- specification
Responses ==
    \/ \E j \in 1..MaxItems, ok \in BOOLEAN : PresignReturn(j, ok)
    \/ \E j \in 1..MaxItems, outcome \in PostOutcomes : UploadReturn(j, outcome)
    \/ \E j \in 1..MaxItems, ok \in BOOLEAN : CommitReturn(j, ok)

\* What the user and the share extension do to the queue.
QueueOps ==
    \/ \E kind \in { "media", "doc" } : PickStart(kind)
    \/ \E assets \in AssetGroups : PickFinish(assets)
    \/ PickCancel
    \/ \E assets \in AssetGroups : ShareFiles(assets)
    \/ \E index \in 1..MaxItems : RemoveFile(index)
    \/ ClearAll
    \/ ToggleSelectionMode
    \/ \E selected \in SUBSET (1..MaxItems) : DeleteSelected(selected)

Next ==
    \/ QueueOps
    \/ HandleUpload
    \/ AlertOK
    \/ Responses

\* The same screen when the queue is left alone while a batch is pending.
NextBatch ==
    \/ (mutStatus # "pending" /\ QueueOps)
    \/ HandleUpload
    \/ AlertOK
    \/ Responses

\* A share intent that carries a URL or a text.
TextShares == \E kind \in { "url", "text" } : ShareText(kind)

\* The queue alone: every admission path and every queue operation, with no
\* upload started.
NextAdmit ==
    \/ QueueOps
    \/ TextShares

\* The queue under selections of many files: every admission path, Clear
\* All and the Select button.
NextLimit ==
    \/ \E kind \in { "media", "doc" } : PickStart(kind)
    \/ \E n \in GroupSizes : PickFinishMany(n)
    \/ PickCancel
    \/ \E n \in GroupSizes : ShareFilesMany(n)
    \/ TextShares
    \/ ClearAll
    \/ ToggleSelectionMode

\* The screen with every admission path, the queue left alone while a batch
\* is pending.
NextShare ==
    \/ NextBatch
    \/ (mutStatus # "pending" /\ TextShares)

\* The file manager: downloads and deletes of the listed files.
Downloads ==
    \/ \E file \in FileIds : DownloadFile(file)
    \/ \E file \in FileIds, ok \in BOOLEAN : SignedUrlReturn(file, ok)
    \/ \E file \in FileIds, downloadProgress \in ProgressReports :
          DownloadProgress(file, downloadProgress)
    \/ \E file \in FileIds, ok \in BOOLEAN : DownloadReturn(file, ok)
    \/ \E file \in FileIds : ShareReturn(file)

Deletes ==
    \/ \E file \in FileIds : HandleDelete(file)
    \/ \E ok \in BOOLEAN : RowDeleteReturn(ok)
    \/ \E ok \in BOOLEAN : DeleteFileReturn(ok)

NextManager ==
    \/ Downloads
    \/ Deletes
    \/ Refetch

\* The file manager with its selection mode.
BulkDeletes ==
    \/ \E id \in FileIds : toggleItemSelection(id)
    \/ bulkDelete
    \/ \E ok \in BOOLEAN : BulkRowDeleteReturn(ok)
    \/ \E ok \in BOOLEAN : BulkDeleteFileReturn(ok)

NextBulk ==
    \/ BulkDeletes
    \/ Deletes
    \/ Refetch

\* The drive: folders and file records come, move and go.
FolderOps ==
    \/ \E name \in FolderNames, parentId \in (DOMAIN folders) \cup { None, activeFolderId } :
          CreateFolder(name, parentId)
    \/ \E id \in FolderIds : DeleteFolder(id)

Moves ==
    \/ \E type \in { "folder", "file" }, id \in FolderIds \cup AllFileIds : OpenMove(type, id)
    \/ CloseMove
    \/ PickerFetch
    \/ \E folder \in FolderIds : handleNavigate(folder)
    \/ \E index \in 0..MaxFolders : handleBreadcrumbNavigate(index)
    \/ handleMove

Commits ==
    \E fileName \in FileNames, folderId \in (DOMAIN folders) \cup { None } :
        CreateFileRecord(fileName, folderId)

\* Folders and file records come and go: uploads, deletes of a file, deletes
\* of a folder.
NextCascade ==
    \/ FolderOps
    \/ Commits
    \/ Deletes
    \/ Refetch

\* Folders and file records come and move.
NextTree ==
    \/ FolderOps
    \/ Moves
    \/ Commits

\* The broker and the bucket.
NextBroker ==
    \/ \E caller \in Callers, body \in Bodies, s3ok \in BOOLEAN : Request(caller, body, s3ok)
    \/ \E key \in Keys : PostObject(key)

\* The sequential uploader.
NextSequential ==
    \/ \E list \in FileLists : SequentialHandleUpload(list)
    \/ \E ok \in BOOLEAN : SequentialPresignReturn(ok)
    \/ \E outcome \in PostOutcomes : SequentialUploadReturn(outcome)
    \/ \E ok \in BOOLEAN : SequentialCommitReturn(ok)
    \/ SequentialReset

\* The validation loops alone, over every candidate.
ValidateInit ==
    /\ ScreenInit
    /\ ManagerInit
    /\ OtherInit
    /\ records = {}
    /\ QueryInit
    /\ cand \in Candidates
    /\ verdict = NoVerdict

NextValidate == \E path \in { "media", "doc", "share" } : Validate(path)

ValidateSpec == ValidateInit /\ [][NextValidate]_vars

\* A list query over every table of the bounds, nothing else changing.
PageInit ==
    /\ ScreenInit
    /\ ManagerInit
    /\ OtherInit
    /\ records \in Tables
    /\ QueryInit
    /\ cand = [name |-> "a.txt", type |-> <<"text", "plain">>, size |-> 2 * GiB]
    /\ verdict = NoVerdict

NextPage == FetchPage

PageSpec == PageInit /\ [][NextPage]_vars

ManagerSpec == Init /\ [][NextManager]_vars

LimitSpec == Init /\ [][NextLimit]_vars

SequentialSpec == Init /\ [][NextSequential]_vars

BulkSpec == Init /\ [][NextBulk]_vars

BrokerSpec == Init /\ [][NextBroker]_vars

CascadeSpec == Init /\ [][NextCascade]_vars

TreeSpec == Init /\ [][NextTree]_vars

Spec == Init /\ [][Next]_vars

AdmitSpec == Init /\ [][NextAdmit]_vars

ShareSpec == Init /\ [][NextShare]_vars

BatchSpec == Init /\ [][NextBatch]_vars

\* Every request that is out eventually returns.
FairSpec == Spec /\ WF_vars(Responses)
FairBatchSpec == BatchSpec /\ WF_vars(Responses)

TypeOK ==
    /\ selectionMode \in BOOLEAN
    /\ admitted \in 0..MaxItems
    /\ screen \in { "open", "closed" }
    /\ mutStatus \in { "idle", "pending", "success", "error" }
    /\ Len(st) = Len(filesToUpload)
    /\ Len(resp) = Len(filesToUpload)
    /\ Len(reqs) = Len(filesToUpload)
    /\ Len(place) = Len(filesToUpload)
    /\ \A j \in 1..Len(place) : place[j] # 0 => files[place[j]] = filesToUpload[j]
    /\ \A j \in 1..Len(st) :
         st[j] \in { "Queued" } \cup InFlight \cup Terminal


\* ------------------------------------------------------------------ claims
Items == 1..Len(st)
NumberIn(states) == Cardinality({ j \in Items : st[j] \in states })

\* The window an item belongs to: the consecutive slices of size k of the
\* batch, in queue order.
WindowOf(j) == (j - 1) \div MAX_CONCURRENT_UPLOADS

\* The run of the batch went through its windows and returned.
Returned == mutStatus = "success"

\* C1: at every instant at most MAX_CONCURRENT_UPLOADS items of the batch are
\* in flight, that is between the start of their get-presigned-url request
\* and their terminal state.
C1_AtMostKInFlight == NumberIn(InFlight) <= MAX_CONCURRENT_UPLOADS

\* A batch longer than one window with a full window in flight.
C1_Witness ==
    /\ Len(st) > MAX_CONCURRENT_UPLOADS
    /\ NumberIn(InFlight) = MAX_CONCURRENT_UPLOADS
    /\ \E j \in Items : st[j] = "Committing"

\* C2: the windows run strictly in sequence: an item has issued its first
\* request only if every item of every earlier window is Succeeded or Failed.
C2_WindowsInSequence ==
    \A j \in Items : \A h \in Items :
        (WindowOf(h) < WindowOf(j) /\ reqs[j].presign > 0) => st[h] \in Terminal

\* An item of the second window has started after a first window in which one
\* item failed and another succeeded.
C2_Witness ==
    \E j \in Items :
        /\ WindowOf(j) = 1
        /\ reqs[j].presign > 0
        /\ \E h \in Items : WindowOf(h) = 0 /\ st[h] = "Failed"
        /\ \E h \in Items : WindowOf(h) = 0 /\ st[h] = "Succeeded"

\* C3: the failure of an item stops no other item: once the run of a batch
\* that started its first window is over, every item of the batch, in the
\* window of a failed item and in the later windows, has had its request
\* issued and is Succeeded or Failed.
C3_FailureStopsNoOtherItem ==
    (mutStatus \in { "success", "error" } /\ \E j \in Items : reqs[j].presign > 0)
        => \A j \in Items : reqs[j].presign > 0 /\ st[j] \in Terminal

\* A finished batch of two windows in which an item of the first window
\* failed, while an item of the same window and the item of the second window
\* succeeded.
C3_Witness ==
    /\ Returned
    /\ Len(st) > MAX_CONCURRENT_UPLOADS
    /\ \E j \in Items : WindowOf(j) = 0 /\ st[j] = "Failed"
    /\ \E j \in Items : WindowOf(j) = 0 /\ st[j] = "Succeeded"
    /\ \E j \in Items : WindowOf(j) = 1 /\ st[j] = "Succeeded"

\* The upload POST of item j has returned a 2xx status.
PostReturned2xx(j) ==
    /\ resp[j].post # << >>
    /\ ~resp[j].post[1].rejected
    /\ resp[j].post[1].status \in 200..299

\* C4: a create-file-record request is issued for an item if and only if the
\* item's upload POST has returned a 2xx status, and the upload POST is
\* issued only once get-presigned-url has answered with data for the item.
C4_CommitIffUploadOk ==
    \A j \in Items :
        /\ reqs[j].commit > 0 <=> PostReturned2xx(j)
        /\ reqs[j].post > 0 => resp[j].presign = "data"
        /\ reqs[j].commit > 0 => reqs[j].post > 0

\* One item's POST returned 204 and its commit request is out, another's
\* returned 300 and it has no commit request.
C4_Witness ==
    /\ \E j \in Items : PostReturned2xx(j) /\ reqs[j].commit = 1
    /\ \E j \in Items :
         /\ resp[j].post # << >>
         /\ ~PostReturned2xx(j)
         /\ reqs[j].commit = 0

C6_ReportedCountsAreActual ==
    alert.shown =>
        /\ ReportedSucceeded = NumberIn({ "Succeeded" })
        /\ ReportedFailed = NumberIn({ "Failed" })
        /\ ReportedSucceeded + ReportedFailed = Len(filesToUpload)

\* C7: Succeeded and Failed are terminal, and nothing is re-issued: an item in
\* one of them keeps its state and its request counts at every step; each
\* item of a run has at most one request of each kind out, exactly one
\* get-presigned-url once it has left Queued, and so each item of a run that
\* returned.
C7_TerminalAndOneRequestEach ==
    /\ [](\A j \in Items :
            /\ reqs[j].presign <= 1 /\ reqs[j].post <= 1 /\ reqs[j].commit <= 1
            /\ st[j] # "Queued" => reqs[j].presign = 1
            /\ Returned => reqs[j].presign = 1)
    /\ [][\A j \in Items :
            st[j] \in Terminal =>
                /\ Len(st') = Len(st)
                /\ st'[j] = st[j]
                /\ reqs'[j] = reqs[j]]_vars

\* A run of two windows has returned; one item failed at its first request
\* and issued nothing more, another succeeded with one request of each kind.
C7_Witness ==
    /\ Returned
    /\ Len(st) > MAX_CONCURRENT_UPLOADS
    /\ \E j \in Items :
         st[j] = "Failed" /\ reqs[j] = [presign |-> 1, post |-> 0, commit |-> 0]
    /\ \E j \in Items :
         st[j] = "Succeeded" /\ reqs[j] = [presign |-> 1, post |-> 1, commit |-> 1]

\* C8: when every request eventually returns, every item that has left Queued
\* eventually is Succeeded or Failed, and a pending batch run eventually
\* returns.
C8_EveryItemAndTheRunEnd ==
    /\ \A j \in 1..MaxItems :
         (j <= Len(st) /\ st[j] \in InFlight) ~> (j <= Len(st) /\ st[j] \in Terminal)
    /\ (mutStatus = "pending") ~> (mutStatus \in { "success", "error" })

\* A run of two windows has returned with a failed and a succeeded item.
C8_Witness ==
    /\ Returned
    /\ Len(st) > MAX_CONCURRENT_UPLOADS
    /\ st[Len(st)] \in Terminal
    /\ NumberIn({ "Failed" }) > 0
    /\ NumberIn({ "Succeeded" }) > 0
    /\ NumberIn(Terminal) = Len(st)

\* C9: removing an item from the queue affects only items still Queued: an
\* item of the batch that is out of the queue while still Queued is never
\* transferred, and the removal of an item past Queued changes nothing of its
\* transfer.
C9_RemovalAffectsOnlyQueued ==
    [][\A j \in Items :
         /\ (mutStatus = "pending" /\ place[j] = 0 /\ st[j] = "Queued")
                => (Len(st') = Len(st) /\ st'[j] = "Queued")
         /\ (mutStatus = "pending" /\ place[j] # 0 /\ place'[j] = 0
               /\ st[j] # "Queued")
                => (st'[j] = st[j] /\ reqs'[j] = reqs[j])]_vars

\* C10: at most one upload batch is in flight per upload screen.
C10_AtMostOneBatch == runs <= 1

\* A batch is pending over a queue that would otherwise let Upload be
\* pressed.
C10_Witness ==
    /\ mutStatus = "pending"
    /\ runs = 1
    /\ Len(files) # 0
    /\ ~selectionMode
    /\ UIFree
    /\ ~UploadPressable

\* C11: while an upload batch is in flight the queue cannot be changed: no
\* admission, removal, clear or bulk removal changes it until the batch has
\* finished.
C11_QueueUntouchedWhilePending ==
    [][mutStatus = "pending" => files' = files]_vars

\* C12: after any sequence of queue operations, admissions that overlap in
\* time and admissions of a shared URL or text included, the sizes of the
\* queued items sum to at most MAX_TOTAL_SIZE_PER_UPLOAD.
C12_QueueWithinTotalSize == getTotalUploadSize(files) <= MAX_TOTAL_SIZE_PER_UPLOAD

\* C12 for the picker and file-share paths alone: the queue holds no shared
\* URL or text and is over the cap all the same.
C12_WithoutTextWithinTotalSize ==
    (\A n \in 1..Len(files) : files[n] \in Assets)
        => getTotalUploadSize(files) <= MAX_TOTAL_SIZE_PER_UPLOAD

\* The total-size check run on a group fails: some candidate passed the
\* validators (each file is within MAX_FILE_SIZE), and the queue the call saw
\* plus the group is over the cap.
PickedValid(assets) ==
    IF picker.kind = "media" THEN MediaValidFiles(assets) ELSE DocValidFiles(assets)

PickSizeCheckFails(assets) ==
    LET validFiles == PickedValid(assets)
    IN /\ Len(validFiles) > 0
       /\ ~isUploadSizeValid(picker.files \o validFiles)

ShareSizeCheckFails(assets) ==
    LET validFiles == ShareValidFiles(assets)
        filesToAdd == Slice0(validFiles, Min(Len(validFiles), MAX_FILES - Len(files)))
    IN /\ Len(validFiles) > 0
       /\ ~isUploadSizeValid(files \o filesToAdd)

PassesValidators(f) ==
    /\ f.size > 0 /\ f.size <= 5 * GiB
    /\ Len(f.name) >= 1 /\ Len(f.name) <= 255
    /\ \/ f.type \in ALLOWED_IMAGE_TYPES \cup ALLOWED_VIDEO_TYPES \cup ALLOWED_DOCUMENT_TYPES
       \/ (f.type # << >> /\ f.type[1] \in { "image", "video" })

\* C14: after any sequence of admissions, removals and clears, every item of
\* the queue passes the three validator rules, and so does every item a
\* request was issued for: a rejected candidate is never queued and never
\* causes a request.
C14_QueueHoldsValidItems ==
    /\ \A n \in 1..Len(files) : PassesValidators(files[n])
    /\ \A j \in Items : reqs[j].presign > 0 => PassesValidators(filesToUpload[j])

\* The queue holds a picked or shared file next to a shared URL or text, a
\* batch over it has issued its requests, and the two candidates the
\* validators reject are not in it.
C14_Witness ==
    /\ \E n \in 1..Len(files) : files[n] \in Assets
    /\ \E n \in 1..Len(files) : files[n] = SharedTextFile("url")
    /\ mutStatus = "pending"
    /\ Len(filesToUpload) >= 2
    /\ \A j \in Items : j <= MAX_CONCURRENT_UPLOADS => reqs[j].presign = 1
    /\ \A n \in 1..Len(files) : files[n].name \notin { "c.bin", "d.zip" }

\* What a validation loop checks of a candidate: its name after the
\* fallback for a missing file name, its size, its type after the fallback
\* of the media picker.
NameChecked(path, asset) == IF path = "doc" THEN asset.name ELSE FallbackName(asset)
TypeChecked(path, asset) == IF path = "media" THEN MediaMimeType(asset) ELSE asset.type

NameInRange(name) == Len(name) >= 1 /\ Len(name) <= 255
SizeInRange(size) == size > 0 /\ size <= 5 * GiB
TypeInLists(type) ==
    \/ type \in ALLOWED_IMAGE_TYPES \cup ALLOWED_VIDEO_TYPES \cup ALLOWED_DOCUMENT_TYPES
    \/ (type # << >> /\ type[1] \in { "image", "video" })

Validated == verdict # NoVerdict

InUnitInterval(x) == x.kind = "finite" /\ 0 <= x.num /\ x.num <= x.den

\* C17: after every progress callback (bytesWritten, bytesExpected) of a
\* download, the progress stored for the file lies in [0,1], and it is
\* exactly 0 when bytesExpected = 0, for any bytesWritten.
C17_ProgressInUnitInterval ==
    [][\A file \in FileIds, report \in ProgressReports :
         DownloadProgress(file, report) =>
             /\ InUnitInterval(downloadingFiles'[file].progress)
             /\ report.totalBytesExpectedToWrite = 0 =>
                    downloadingFiles'[file].progress = Number(0, 1)]_vars

\* C18: for every candidate that passed validation, was admitted, and whose
\* credential request, upload and commit all succeeded, the file record the
\* commit created has size_bytes equal to the candidate's size and name equal
\* to the candidate's name.
C18_RecordKeepsNameAndSize ==
    \A j \in Items :
        st[j] = "Succeeded" =>
            /\ Len(resp[j].fileRecord) = 1
            /\ resp[j].fileRecord[1].size_bytes = filesToUpload[j].size
            /\ resp[j].fileRecord[1].name = filesToUpload[j].name

\* A valid candidate of the queue has been uploaded and committed, behind an
\* item of another name and another size.
C18_Witness ==
    \E j \in Items :
        /\ j > 1
        /\ st[j] = "Succeeded"
        /\ PassesValidators(filesToUpload[j])
        /\ resp[j].fileRecord # << >>
        /\ filesToUpload[j].size # filesToUpload[1].size
        /\ filesToUpload[j].name # filesToUpload[1].name

\* C19: deleting a file is two-phase in a fixed order: the delete-file
\* request for the object is issued only by the step in which the row delete
\* returned without an error, so that while it is out the row is gone; and no
\* step, a failure of delete-file included, puts a row back.
C19_RowDeletedBeforeObject ==
    /\ [](del.step = "s3" => del.item \notin rows)
    /\ [][(del.step # "s3" /\ del'.step = "s3") =>
              /\ del.step = "db"
              /\ del'.item = del.item
              /\ rows' = rows \ { del.item }]_vars
    /\ [][rows' \subseteq rows]_vars
    /\ [][DeleteFileReturn(FALSE) => (del.item \notin rows' /\ objects' = objects)]_vars

\* The delete-file request of a file has failed: its row is gone, its object
\* is still in the bucket.
C19_Witness ==
    \E file \in delLog :
        /\ file \notin rows
        /\ file \in objects
        /\ del.step = "idle"

\* C20: when the row of a file has been deleted and the delete-file request
\* for its object fails, the failure is only logged: the delete completes as
\* a success and no error is reported to the user.
C20_ObjectFailureOnlyLogged ==
    [][DeleteFileReturn(FALSE) =>
          /\ del.item \in delLog'
          /\ delAlert'.kind # "Error"
          /\ delAlert' = [kind |-> "Success", item |-> del.item]]_vars

C22_NoDuplicateSiblings ==
    /\ \A f1 \in rows, f2 \in rows :
         (f1 # f2 /\ cols[f1].folder_id = cols[f2].folder_id)
             => cols[f1].name # cols[f2].name
    /\ \A g1 \in DOMAIN folders, g2 \in DOMAIN folders :
         (g1 # g2 /\ folders[g1].parent_id = folders[g2].parent_id)
             => folders[g1].name # folders[g2].name

\* The same below the top level only, where the unique constraints compare
\* the parent.
C22_NoDuplicateSiblingsInFolders ==
    /\ \A f1 \in rows, f2 \in rows :
         (f1 # f2 /\ cols[f1].folder_id = cols[f2].folder_id /\ cols[f1].folder_id # None)
             => cols[f1].name # cols[f2].name
    /\ \A g1 \in DOMAIN folders, g2 \in DOMAIN folders :
         (g1 # g2 /\ folders[g1].parent_id = folders[g2].parent_id
                  /\ folders[g1].parent_id # None)
             => folders[g1].name # folders[g2].name

\* The broker has served a get-presigned-url request of a signed-in caller.
PresignServed == request.caller # None /\ request.body.action = "get-presigned-url"

\* C23: the get-presigned-url action answers 413 and issues neither an upload
\* URL nor a storage key whenever the requested fileSize exceeds the cap of
\* 5 GiB, whatever the client checked; below the cap it is not the size that
\* refuses the request.
C23_OverCapRefused ==
    /\ (PresignServed /\ request.body.fileSize > 5 * GiB) =>
          /\ response.status = 413
          /\ response.uploadUrl = FALSE
          /\ response.s3Key = << >>
    /\ (PresignServed /\ request.body.fileSize <= 5 * GiB) => response.status # 413

\* A request for a credential for a file of 5 GiB + 1 KiB has been refused,
\* after another one, for the same name, was granted.
C23_Witness ==
    /\ PresignServed
    /\ request.body.fileSize = 5 * GiB + 1
    /\ response.status = 413
    /\ << request.caller, "stamp", request.body.fileName >> \in presigned

\* C28: the delete-file and get-signed-url actions act only on storage keys
\* of the caller (keys under the caller's id): a request that names another
\* user's key is refused, deletes no object and returns no signed URL.
C28_OnlyOwnKeys ==
    (/\ request.body.action \in { "delete-file", "get-signed-url" }
     /\ request.body.s3Key # << >>
     /\ request.body.s3Key[1] # request.caller)
        => /\ response.status # 200
           /\ response.signedUrl = << >>

\* C24: in the sequential uploader the failure of one file (credential
\* request, upload POST or commit) does not abort the batch and is not raised
\* out of it: the run does not end in an error, and when it has ended every
\* file of the list has been processed.
C24_SequentialFailureDoesNotAbort ==
    /\ sequential.status # "error"
    /\ sequential.status \in { "success", "error" } =>
           sequential.started = 1..Len(sequential.filesToUpload)

\* C25: in a bulk delete a failed delete-file request for one file does not
\* stop the flow: when the request of an item that is not the last fails,
\* the loop goes on to delete the next selected item.
C25_BulkDeleteGoesOn ==
    [][(BulkDeleteFileReturn(FALSE) /\ bulk.item < Len(bulk.itemsToDelete)) =>
          /\ del'.step = "db"
          /\ del'.item = bulk.itemsToDelete[bulk.item + 1]]_vars

\* C26: at most one download of a file is in flight. The file's entry of
\* downloadingFiles is there exactly while its download is in flight, a
\* get-signed-url request for a file is issued only when none of its
\* downloads is in flight, and a transfer starts only from the answer to
\* that request.
C26_OneDownloadPerFile ==
    /\ [](\A file \in FileIds : dl[file] # "idle" <=> file \in DOMAIN downloadingFiles)
    /\ [][\A file \in FileIds :
            (dl[file] # "signing" /\ dl'[file] = "signing") => dl[file] = "idle"]_vars
    /\ [][\A file \in FileIds :
            (dl[file] # "downloading" /\ dl'[file] = "downloading")
                => dl[file] = "signing"]_vars

\* A file of the list is being transferred, so that a second press of
\* Download meets the guard.
C26_Witness ==
    \E file \in listed :
        /\ dl[file] = "downloading"
        /\ file \in DOMAIN downloadingFiles
        /\ ~ENABLED DownloadFile(file)

\* C27: after any sequence of queue operations, overlapping admissions
\* included, the upload queue holds at most MAX_FILES_PER_UPLOAD items.
C27_QueueWithinLimit == Len(files) <= MAX_FILES_PER_UPLOAD

C30_PagesYieldEveryRowOnce ==
    ~hasNextPage =>
        /\ Range(FlatMap(pages)) = records
        /\ Len(FlatMap(pages)) = Cardinality(records)

====
